---- MODULE Spec2Model ----
(***************************************************************************)
(* A model of trk (src/src/main.rs): the generate_site pipeline            *)
(* (scan, parse, sort, render, write, feed) and the `dev` mode's watch     *)
(* loop and static server.                                                 *)
(***************************************************************************)
EXTENDS Integers, Sequences, FiniteSets, TLC

(***************************************************************************)
(* Source documents.  A file's text is a sequence of newline-terminated    *)
(* lines (the last one possibly without its newline).  A line is a record  *)
(* [k, s, d]: k is the kind of line, s its string payload and d the        *)
(* timestamp a `date:` line parses to (<<>> when it parses to none).       *)
(***************************************************************************)
NoDate == << >>

Line(k, s, d) == [k |-> k, s |-> s, d |-> d]

DelimLine == Line("---", "", NoDate)

\* A line that merely ends in the three dashes, e.g. "x---".
DashTailLine(s) == Line("tail---", s, NoDate)

TitleLine(t) == Line("title", t, NoDate)

\* date = <<year, month, day, hour>> in UTC.
DateLine(date) == Line("date", "", date)

BadDateLine(s) == Line("date", s, NoDate)

DescLine(s) == Line("description", s, NoDate)

\* A description line whose value ends in the three dashes, "description: s---".
DescDashLine(s) == Line("description---", s, NoDate)

TextLine(s) == Line("text", s, NoDate)

Text(lines, nl) == [lines |-> lines, nl |-> nl]

(***************************************************************************)
(* Zero-padded decimal formatting, Rust's {:0w}: the sign counts towards   *)
(* the width, and a number wider than w is not truncated.                  *)
(***************************************************************************)
RECURSIVE Zeros(_)
Zeros(n) == IF n <= 0 THEN "" ELSE "0" \o Zeros(n - 1)

PadZero(n, w) ==
    IF n >= 0
    THEN Zeros(w - Len(ToString(n))) \o ToString(n)
    ELSE "-" \o Zeros(w - 1 - Len(ToString(-n))) \o ToString(-n)

\* The date, were its fields written without padding.
FormatDateUnpadded(date) ==
    ToString(date[1]) \o "-" \o ToString(date[2]) \o "-" \o ToString(date[3])

format_date(date) ==
    PadZero(date[1], 4) \o "-" \o PadZero(date[2], 2) \o "-" \o PadZero(date[3], 2)

\* DateTime<Utc>::cmp: -1, 0 or 1, lexicographic on <<year, month, day, hour>>.
RECURSIVE DateCmpFrom(_, _, _)
DateCmpFrom(a, b, i) ==
    IF i > Len(a) THEN 0
    ELSE IF a[i] < b[i] THEN -1
    ELSE IF a[i] > b[i] THEN 1
    ELSE DateCmpFrom(a, b, i + 1)

DateCmp(a, b) == DateCmpFrom(a, b, 1)

MonthName(m) ==
    <<"Jan", "Feb", "Mar", "Apr", "May", "Jun",
      "Jul", "Aug", "Sep", "Oct", "Nov", "Dec">>[m]

\* Day of the week, 0 = Sunday (Sakamoto's method, Gregorian calendar).
WeekdayIndex(date) ==
    LET y == IF date[2] < 3 THEN date[1] - 1 ELSE date[1]
        t == <<0, 3, 2, 5, 0, 3, 5, 1, 4, 6, 2, 4>>[date[2]]
    IN  (y + (y \div 4) - (y \div 100) + (y \div 400) + t + date[3]) % 7

WeekdayName(date) ==
    <<"Sun", "Mon", "Tue", "Wed", "Thu", "Fri", "Sat">>[WeekdayIndex(date) + 1]

\* DateTime<Utc>::to_rfc2822, e.g. "Sat, 01 Jun 2024 00:00:00 +0000".
to_rfc2822(date) ==
    WeekdayName(date) \o ", " \o PadZero(date[3], 2) \o " " \o MonthName(date[2])
        \o " " \o PadZero(date[1], 4) \o " " \o PadZero(date[4], 2) \o ":00:00 +0000"

(***************************************************************************)
(* parse_markdown_file                                                     *)
(***************************************************************************)
\* Line i of the text ends in "---\n": the pattern content.split("---\n") cuts at.
EndsInDelimiter(text, i) ==
    /\ text.lines[i].k \in {"---", "tail---", "description---"}
    /\ (i < Len(text.lines) \/ text.nl)

\* What a line that ends in "---\n" leaves in front of the cut.
Residue(l) ==
    CASE l.k = "tail---" -> <<TextLine(l.s)>>
      [] l.k = "description---" -> <<DescLine(l.s)>>
      [] OTHER -> << >>

\* content.split("---\n"): the segments between the cuts, each the sequence of
\* its lines; what precedes the dashes on a cut line stays in the segment it ends.
RECURSIVE SplitFrom(_, _, _, _)
SplitFrom(text, i, cur, parts) ==
    IF i > Len(text.lines) THEN Append(parts, cur)
    ELSE IF EndsInDelimiter(text, i)
    THEN SplitFrom(text, i + 1, << >>,
             Append(parts, cur \o Residue(text.lines[i])))
    ELSE SplitFrom(text, i + 1, Append(cur, text.lines[i]), parts)

Split(text) == SplitFrom(text, 1, << >>, << >>)

Ok(v) == [ok |-> TRUE, val |-> v, err |-> ""]

Err(e) == [ok |-> FALSE, val |-> << >>, err |-> e]

FieldLines(seg, k) == {i \in 1..Len(seg) : seg[i].k = k}

\* serde_yaml::from_str::<FrontMatter>: a mapping with exactly one title, exactly
\* one date that parses as a timestamp, and at most one description ("" by default).
FrontMatterOf(seg) ==
    LET titles == FieldLines(seg, "title")
        dates  == FieldLines(seg, "date")
        descs  == FieldLines(seg, "description")
    IN  IF \E i \in 1..Len(seg) : seg[i].k \notin {"title", "date", "description"}
        THEN Err("MetadataError")
        ELSE IF Cardinality(titles) # 1 \/ Cardinality(dates) # 1 \/ Cardinality(descs) > 1
        THEN Err("MetadataError")
        ELSE IF seg[CHOOSE i \in dates : TRUE].d = NoDate
        THEN Err("MetadataError")
        ELSE Ok([title |-> seg[CHOOSE i \in titles : TRUE].s,
                 date |-> seg[CHOOSE i \in dates : TRUE].d,
                 description |-> IF descs = {} THEN ""
                                 ELSE seg[CHOOSE i \in descs : TRUE].s])

\* The source text of one line, without its newline.
LineSource(l) ==
    CASE l.k = "---" -> "---"
      [] l.k = "tail---" -> l.s \o "---"
      [] l.k = "description---" -> "description: " \o l.s \o "---"
      [] l.k = "text" -> l.s
      [] l.k = "date" -> "date: " \o (IF l.d = NoDate THEN l.s ELSE format_date(l.d))
      [] OTHER -> l.k \o ": " \o l.s

RECURSIVE JoinLines(_)
JoinLines(seg) ==
    IF Len(seg) = 0 THEN ""
    ELSE IF Len(seg) = 1 THEN LineSource(seg[1])
    ELSE LineSource(seg[1]) \o "\n" \o JoinLines(Tail(seg))

\* html::push_html over the body: its lines make one paragraph.
push_html(seg) == IF Len(seg) = 0 THEN "" ELSE "<p>" \o JoinLines(seg) \o "</p>\n"

\* The slug, were the directory part of it.
FileStemWithDir(path) == path.dir \o path.stem

\* Path::file_stem of a path [dir, stem, ext].
file_stem(path) == path.stem

parse_markdown_file(file) ==
    IF ~file.utf8 THEN Err("ReadError")
    ELSE LET parts == Split(file.text)
         IN  IF Len(parts) < 3 THEN Err("FormatError")
             ELSE LET fm == FrontMatterOf(parts[2])
                  IN  IF ~fm.ok THEN fm
                      ELSE Ok([front_matter |-> fm.val,
                               content |-> push_html(parts[3]),
                               slug |-> file_stem(file.path),
                               formatted_date |-> format_date(fm.val.date)])

(***************************************************************************)
(* generate_site: collecting and ordering the posts                        *)
(***************************************************************************)
\* entry.path().extension() == "md"
IsMarkdown(file) == file.path.ext = "md"

\* The loop over WalkDir, were it to skip the files that do not parse.
RECURSIVE ParseAllSkipping(_, _, _)
ParseAllSkipping(files, i, posts) ==
    IF i > Len(files) THEN Ok(posts)
    ELSE IF ~IsMarkdown(files[i]) THEN ParseAllSkipping(files, i + 1, posts)
    ELSE LET r == parse_markdown_file(files[i])
         IN  ParseAllSkipping(files, i + 1, IF r.ok THEN Append(posts, r.val) ELSE posts)

\* The loop over WalkDir: the posts parsed so far, or the first error met.
RECURSIVE ParseAll(_, _, _)
ParseAll(files, i, posts) ==
    IF i > Len(files) THEN Ok(posts)
    ELSE IF ~IsMarkdown(files[i]) THEN ParseAll(files, i + 1, posts)
    ELSE LET r == parse_markdown_file(files[i])
         IN  IF ~r.ok THEN r ELSE ParseAll(files, i + 1, Append(posts, r.val))

\* The comparator with its operands the other way round: oldest first.
ForwardDateCmp(a, b) == DateCmp(a.front_matter.date, b.front_matter.date)

\* The comparator of posts.sort_by: b.date.cmp(&a.date).
ReverseDateCmp(a, b) == DateCmp(b.front_matter.date, a.front_matter.date)

\* Insert p behind every element that does not compare greater than it.
RECURSIVE InsertSorted(_, _)
InsertSorted(sorted, p) ==
    IF Len(sorted) = 0 THEN <<p>>
    ELSE IF ReverseDateCmp(Head(sorted), p) <= 0
    THEN <<Head(sorted)>> \o InsertSorted(Tail(sorted), p)
    ELSE <<p>> \o sorted

\* slice::sort_by, a stable sort.
RECURSIVE SortFrom(_, _, _)
SortFrom(posts, i, sorted) ==
    IF i > Len(posts) THEN sorted
    ELSE SortFrom(posts, i + 1, InsertSorted(sorted, posts[i]))

\* The collection, were the sort left out.
SortSkipped(posts) == posts

sort_by(posts) == SortFrom(posts, 1, << >>)

(***************************************************************************)
(* Rendering and the feed.  A rendered artifact is the record of the       *)
(* template source and the variables bound into it.                        *)
(***************************************************************************)
SiteBase == "https://trkw.github.io"

RenderPost(tera, post) ==
    [kind |-> "page", template |-> tera["post.html"],
     title |-> post.front_matter.title, content |-> post.content,
     date |-> post.formatted_date]

RenderIndex(tera, posts) ==
    [kind |-> "index", template |-> tera["index.html"], posts |-> posts]

RssItem(post) ==
    [title |-> post.front_matter.title,
     link |-> SiteBase \o "/" \o post.slug \o ".html",
     description |-> post.front_matter.description,
     pub_date |-> to_rfc2822(post.front_matter.date)]

\* The items, were each pushed to the front of the channel.
RECURSIVE RssItemsPrepended(_, _, _)
RssItemsPrepended(posts, i, items) ==
    IF i > Len(posts) THEN items
    ELSE RssItemsPrepended(posts, i + 1, <<RssItem(posts[i])>> \o items)

RECURSIVE RssItems(_, _, _)
RssItems(posts, i, items) ==
    IF i > Len(posts) THEN items
    ELSE RssItems(posts, i + 1, Append(items, RssItem(posts[i])))

RssChannel(posts) ==
    [kind |-> "feed", title |-> "Memo", link |-> SiteBase,
     description |-> "My memo posts", items |-> RssItems(posts, 1, << >>)]

\* The page path, were it made of the title instead of the slug.
PagePathByTitle(post) == post.front_matter.title \o ".html"

PagePath(post) == post.slug \o ".html"

\* A write that appends to what the file holds (a file opened without truncation).
WriteFileAppending(tree, path, data) ==
    [p \in DOMAIN tree \cup {path} |->
        IF p # path THEN tree[p]
        ELSE IF path \in DOMAIN tree THEN Append(tree[path], data)
        ELSE <<data>>]

\* fs::write / File::create + write_all: the file holds exactly the bytes written.
WriteFile(tree, path, data) ==
    [p \in DOMAIN tree \cup {path} |-> IF p = path THEN <<data>> ELSE tree[p]]

(***************************************************************************)
(* State                                                                   *)
(***************************************************************************)
VARIABLES
    cli,        \* the parsed command line: [command, port]
    content,    \* the content root: [exists, files], files in directory order
    templates,  \* the template root: template name -> template source
    output,     \* the output root: file name -> the blobs written to the file
    run,        \* per task, the frame of its generate_site call
    mainPc,     \* where main is
    loopPc,     \* where the spawned watch loop is
    channel,    \* the mpsc channel: [queued, connected, watching]
    server,     \* the warp server: [state, port]
    console,    \* the last line printed on stdout and on stderr: [out, err]
    burst,      \* events delivered and runs started since the last quiet window
    delivered,  \* filesystem changes made so far
    response    \* the last response the server sent: [path, status, body]

vars == <<cli, content, templates, output, run, mainPc, loopPc, channel, server,
          console, burst, delivered, response>>

Tasks == {"main", "watch"}

EmptyTree == << >>

IdleRun ==
    [pc |-> "idle", tera |-> EmptyTree, posts |-> << >>, i |-> 0, err |-> "",
     out0 |-> EmptyTree]

Finished(r) == r.pc \in {"ok", "failed"}

InFlight(r) == r.pc \notin {"idle", "ok", "failed"}

Fail(r, e) == [r EXCEPT !.pc = "failed", !.err = e]

(***************************************************************************)
(* generate_site, stage by stage.  Each stage maps the frame r and the     *)
(* output tree to the frame and the tree after it.                         *)
(***************************************************************************)
\* A template source Tera cannot compile.
IsBrokenTemplate(src) == src = "{% broken"

\* fs::create_dir_all and Tera::new over the template root.
StageInit(r, tpl) ==
    IF \E n \in DOMAIN tpl : IsBrokenTemplate(tpl[n])
    THEN Fail(r, "Failed to initialize template engine")
    ELSE [r EXCEPT !.pc = "collect", !.tera = tpl]

\* The WalkDir loop and posts.sort_by.
StageCollect(r, cont) ==
    IF ~cont.exists THEN Fail(r, "ScanError")
    ELSE LET parsed == ParseAll(cont.files, 1, << >>)
         IN  IF ~parsed.ok THEN Fail(r, parsed.err)
             ELSE [r EXCEPT !.pc = "render", !.posts = sort_by(parsed.val), !.i = 1]

\* One turn of the loop over the posts, were a page that does not render skipped.
StageRenderPostSkipping(r, out) ==
    IF "post.html" \notin DOMAIN r.tera
    THEN [run |-> [r EXCEPT !.i = r.i + 1], out |-> out]
    ELSE [run |-> [r EXCEPT !.i = r.i + 1],
          out |-> WriteFile(out, PagePath(r.posts[r.i]), RenderPost(r.tera, r.posts[r.i]))]

\* One turn of the loop over the posts: render post i and write its page.
StageRenderPost(r, out) ==
    IF "post.html" \notin DOMAIN r.tera
    THEN [run |-> Fail(r, "RenderError"), out |-> out]
    ELSE [run |-> [r EXCEPT !.i = r.i + 1],
          out |-> WriteFile(out, PagePath(r.posts[r.i]), RenderPost(r.tera, r.posts[r.i]))]

\* The index page.
StageIndex(r, out) ==
    IF "index.html" \notin DOMAIN r.tera
    THEN [run |-> Fail(r, "RenderError"), out |-> out]
    ELSE [run |-> [r EXCEPT !.pc = "rss"],
          out |-> WriteFile(out, "index.html", RenderIndex(r.tera, r.posts))]

\* generate_rss, then the success message and Ok(()).
StageRss(r, out) ==
    [run |-> [r EXCEPT !.pc = "ok"],
     out |-> WriteFile(out, "feed.xml", RssChannel(r.posts))]

\* The next stage of frame r.
Stage(r, tpl, cont, out) ==
    CASE r.pc = "init" -> [run |-> StageInit(r, tpl), out |-> out]
      [] r.pc = "collect" -> [run |-> StageCollect(r, cont), out |-> out]
      [] r.pc = "render" /\ r.i <= Len(r.posts) -> StageRenderPost(r, out)
      [] r.pc = "render" /\ r.i > Len(r.posts) -> StageIndex(r, out)
      [] r.pc = "rss" -> StageRss(r, out)
      [] OTHER -> [run |-> r, out |-> out]

\* The frame of a call that has just been entered.
Called(out) == [IdleRun EXCEPT !.pc = "init", !.out0 = out]

\* A whole call on fixed roots: the frame and the tree when it returns.
RECURSIVE RunToEnd(_, _, _, _)
RunToEnd(r, tpl, cont, out) ==
    IF Finished(r) THEN [run |-> r, out |-> out]
    ELSE LET s == Stage(r, tpl, cont, out)
         IN  RunToEnd(s.run, tpl, cont, s.out)

generate_site(tpl, cont, out) == RunToEnd(Called(out), tpl, cont, out)

SuccessMessage == "Site generated successfully!"

\* Task t's call moves to frame and tree s.
GenStep(t, s) ==
    /\ run' = [run EXCEPT ![t] = s.run]
    /\ output' = s.out
    /\ console' = IF s.run.pc = "ok"
                  THEN [console EXCEPT !.out = SuccessMessage]
                  ELSE console
    /\ UNCHANGED <<cli, content, templates, mainPc, loopPc, channel, server,
                   burst, delivered, response>>

GsInit(t) ==
    /\ run[t].pc = "init"
    /\ GenStep(t, [run |-> StageInit(run[t], templates), out |-> output])

GsCollect(t) ==
    /\ run[t].pc = "collect"
    /\ GenStep(t, [run |-> StageCollect(run[t], content), out |-> output])

GsRenderPost(t) ==
    /\ run[t].pc = "render"
    /\ run[t].i <= Len(run[t].posts)
    /\ GenStep(t, StageRenderPost(run[t], output))

GsIndex(t) ==
    /\ run[t].pc = "render"
    /\ run[t].i > Len(run[t].posts)
    /\ GenStep(t, StageIndex(run[t], output))

GsRss(t) ==
    /\ run[t].pc = "rss"
    /\ GenStep(t, StageRss(run[t], output))

(***************************************************************************)
(* main                                                                    *)
(***************************************************************************)
\* The default of --port.
DefaultPort == 3000

\* The port in the address serve_static_files binds.
BoundPort == 3000

Exited == {"exit_ok", "exit_err"}

\* Commands::Generate => generate_site(&cli)?
MainGenerate ==
    /\ mainPc = "start"
    /\ cli.command = "Generate"
    /\ mainPc' = "generate"
    /\ run' = [run EXCEPT !["main"] = Called(output)]
    /\ UNCHANGED <<cli, content, templates, output, loopPc, channel, server,
                   console, burst, delivered, response>>

\* The initial generation, were the watcher armed and the loop spawned before it.
MainDevInitialAfterSpawn ==
    /\ mainPc = "start"
    /\ cli.command = "Dev"
    /\ mainPc' = "initial"
    /\ run' = [run EXCEPT !["main"] = Called(output)]
    /\ channel' = [queued |-> 0, connected |-> TRUE, watching |-> {"content", "templates"}]
    /\ loopPc' = "recv"
    /\ UNCHANGED <<cli, content, templates, output, server, console, burst, delivered, response>>

\* Commands::Dev: the initial generation.
MainDevInitial ==
    /\ mainPc = "start"
    /\ cli.command = "Dev"
    /\ mainPc' = "initial"
    /\ run' = [run EXCEPT !["main"] = Called(output)]
    /\ UNCHANGED <<cli, content, templates, output, loopPc, channel, server,
                   console, burst, delivered, response>>

\* The return to main, were a failed initial generation of `dev` only reported.
MainReturnSoftFail ==
    /\ mainPc \in {"generate", "initial"}
    /\ Finished(run["main"])
    /\ mainPc' = IF mainPc = "initial" THEN "watcher"
                 ELSE IF run["main"].pc = "failed" THEN "exit_err"
                 ELSE "exit_ok"
    /\ run' = [run EXCEPT !["main"] = IdleRun]
    /\ console' = IF run["main"].pc = "failed"
                  THEN [console EXCEPT !.err = "Error: " \o run["main"].err]
                  ELSE console
    /\ UNCHANGED <<cli, content, templates, output, loopPc, channel, server,
                   burst, delivered, response>>

\* generate_site returns to main: `?` leaves main on an error.
MainReturn ==
    /\ mainPc \in {"generate", "initial"}
    /\ Finished(run["main"])
    /\ mainPc' = IF run["main"].pc = "failed" THEN "exit_err"
                 ELSE IF mainPc = "generate" THEN "exit_ok"
                 ELSE "watcher"
    /\ run' = [run EXCEPT !["main"] = IdleRun]
    /\ console' = IF run["main"].pc = "failed"
                  THEN [console EXCEPT !.err = "Error: " \o run["main"].err]
                  ELSE console
    /\ UNCHANGED <<cli, content, templates, output, loopPc, channel, server,
                   burst, delivered, response>>

\* channel() and notify::recommended_watcher(tx)?
MainWatcher ==
    /\ mainPc = "watcher"
    /\ \E ok \in BOOLEAN :
        /\ mainPc' = IF ok THEN "watch_content" ELSE "exit_err"
        /\ channel' = [channel EXCEPT !.connected = ok]
        /\ console' = IF ok THEN console ELSE [console EXCEPT !.err = "Error: WatchError"]
    /\ UNCHANGED <<cli, content, templates, output, run, loopPc, server, burst,
                   delivered, response>>

\* watcher.watch(content_dir)?: fails on a missing root or a fault of the backend.
MainWatchContent ==
    /\ mainPc = "watch_content"
    /\ \E ok \in {b \in BOOLEAN : b => content.exists} :
        /\ mainPc' = IF ok THEN "watch_templates" ELSE "exit_err"
        /\ channel' = IF ok THEN [channel EXCEPT !.watching = @ \cup {"content"}]
                      ELSE [channel EXCEPT !.connected = FALSE]
        /\ console' = IF ok THEN console ELSE [console EXCEPT !.err = "Error: WatchError"]
    /\ UNCHANGED <<cli, content, templates, output, run, loopPc, server, burst,
                   delivered, response>>

\* watcher.watch(template_dir)?
MainWatchTemplates ==
    /\ mainPc = "watch_templates"
    /\ \E ok \in BOOLEAN :
        /\ mainPc' = IF ok THEN "spawn" ELSE "exit_err"
        /\ channel' = IF ok THEN [channel EXCEPT !.watching = @ \cup {"templates"}]
                      ELSE [channel EXCEPT !.connected = FALSE, !.watching = {}]
        /\ console' = IF ok THEN console ELSE [console EXCEPT !.err = "Error: WatchError"]
    /\ UNCHANGED <<cli, content, templates, output, run, loopPc, server, burst,
                   delivered, response>>

\* tokio::spawn of the watch loop.
MainSpawn ==
    /\ mainPc = "spawn"
    /\ mainPc' = "serve"
    /\ loopPc' = "recv"
    /\ UNCHANGED <<cli, content, templates, output, run, channel, server, console,
                   burst, delivered, response>>

\* The port the server listens on when started with command line c.
ListenPort(c) == BoundPort

\* serve_static_files(cli.output_dir).await, which does not return.
MainServe ==
    /\ mainPc = "serve"
    /\ mainPc' = "serving"
    /\ server' = [state |-> "listening", port |-> ListenPort(cli)]
    /\ console' = [console EXCEPT !.out = "Starting development server at http://localhost:3000"]
    /\ UNCHANGED <<cli, content, templates, output, run, loopPc, channel, burst,
                   delivered, response>>

(***************************************************************************)
(* The static server                                                       *)
(***************************************************************************)
NoResponse == [path |-> "", status |-> 0, body |-> << >>]

\* The files a client asks for.
RequestPaths == {"a.html", "index.html"}

\* A request, were the server to wait for a regeneration under way to end.
ServerRequestLocked(p) ==
    /\ server.state = "listening"
    /\ \A t \in Tasks : ~InFlight(run[t])
    /\ response' = IF p \in DOMAIN output
                   THEN [path |-> p, status |-> 200, body |-> output[p]]
                   ELSE [path |-> p, status |-> 404, body |-> << >>]
    /\ UNCHANGED <<cli, content, templates, output, run, mainPc, loopPc, channel,
                   server, console, burst, delivered>>

\* warp::fs::dir: a GET of p is answered with the file as it is in the output root.
ServerRequest(p) ==
    /\ server.state = "listening"
    /\ response' = IF p \in DOMAIN output
                   THEN [path |-> p, status |-> 200, body |-> output[p]]
                   ELSE [path |-> p, status |-> 404, body |-> << >>]
    /\ UNCHANGED <<cli, content, templates, output, run, mainPc, loopPc, channel,
                   server, console, burst, delivered>>

(***************************************************************************)
(* The watch loop                                                          *)
(***************************************************************************)
\* The receipt of an event, were it to start generate_site anew over a call
\* that has not returned.
LoopRecvOkRestarting ==
    /\ loopPc \in {"recv", "call"}
    /\ channel.queued > 0
    /\ channel' = [channel EXCEPT !.queued = @ - 1]
    /\ console' = [console EXCEPT !.out = "Changes detected, regenerating site..."]
    /\ run' = [run EXCEPT !["watch"] = Called(output)]
    /\ loopPc' = "call"
    /\ burst' = [burst EXCEPT !.runs = @ + 1]
    /\ UNCHANGED <<cli, content, templates, output, mainPc, server, delivered, response>>

\* rx.recv_timeout returned Ok(_): regenerate.
LoopRecvOk ==
    /\ loopPc = "recv"
    /\ channel.queued > 0
    /\ channel' = [channel EXCEPT !.queued = @ - 1]
    /\ console' = [console EXCEPT !.out = "Changes detected, regenerating site..."]
    /\ run' = [run EXCEPT !["watch"] = Called(output)]
    /\ loopPc' = "call"
    /\ burst' = [burst EXCEPT !.runs = @ + 1]
    /\ UNCHANGED <<cli, content, templates, output, mainPc, server, delivered, response>>

\* The loop, were it to stop at the first failed regeneration.
AfterRegenerateOrBreak(r) == IF r.pc = "failed" THEN "stopped" ELSE "recv"

\* What the loop does once generate_site has returned r.
AfterRegenerate(r) == "recv"

\* The return to the loop, were the events that arrived during the call dropped.
LoopReturnDraining ==
    /\ loopPc = "call"
    /\ Finished(run["watch"])
    /\ loopPc' = AfterRegenerate(run["watch"])
    /\ console' = IF run["watch"].pc = "failed"
                  THEN [console EXCEPT !.err = "Error regenerating site: " \o run["watch"].err]
                  ELSE console
    /\ run' = [run EXCEPT !["watch"] = IdleRun]
    /\ channel' = [channel EXCEPT !.queued = 0]
    /\ UNCHANGED <<cli, content, templates, output, mainPc, server, burst, delivered,
                   response>>

\* generate_site returns to the loop: an error is printed, the loop goes on.
LoopReturn ==
    /\ loopPc = "call"
    /\ Finished(run["watch"])
    /\ loopPc' = AfterRegenerate(run["watch"])
    /\ console' = IF run["watch"].pc = "failed"
                  THEN [console EXCEPT !.err = "Error regenerating site: " \o run["watch"].err]
                  ELSE console
    /\ run' = [run EXCEPT !["watch"] = IdleRun]
    /\ UNCHANGED <<cli, content, templates, output, mainPc, channel, server, burst,
                   delivered, response>>

\* Err(Timeout): the 100 ms of recv_timeout passed with no message on the channel.
LoopTimeout ==
    /\ loopPc = "recv"
    /\ channel.queued = 0
    /\ channel.connected
    /\ burst' = [events |-> 0, runs |-> 0]
    /\ UNCHANGED <<cli, content, templates, output, run, mainPc, loopPc, channel,
                   server, console, delivered, response>>

\* Err(Disconnected): every sender is gone and the channel is empty.
LoopRecvErr ==
    /\ loopPc = "recv"
    /\ channel.queued = 0
    /\ ~channel.connected
    /\ loopPc' = "stopped"
    /\ console' = [console EXCEPT !.err = "Watch error: channel disconnected"]
    /\ UNCHANGED <<cli, content, templates, output, run, mainPc, channel, server,
                   burst, delivered, response>>

(***************************************************************************)
(* The environment: edits of the two roots, and the notify backend         *)
(***************************************************************************)
MaxEvents == 2

Path(dir, stem, ext) == [dir |-> dir, stem |-> stem, ext |-> ext]

File(path, doc) == [path |-> path, text |-> doc.text, utf8 |-> doc.utf8]

Doc(lines, nl) == [text |-> Text(lines, nl), utf8 |-> TRUE]

Jan1 == <<2024, 1, 1, 0>>

Jun1 == <<2024, 6, 1, 0>>

DocA ==
    Doc(<<DelimLine, TitleLine("A"), DateLine(Jan1), DescLine("first"), DelimLine,
          TextLine("alpha")>>, TRUE)

DocB == Doc(<<DelimLine, TitleLine("B"), DateLine(Jun1), DelimLine, TextLine("beta")>>, TRUE)

\* Same date as DocA; a third delimiter line in the body.
DocC ==
    Doc(<<DelimLine, DateLine(Jan1), TitleLine("C"), DelimLine, TextLine("gamma"),
          DelimLine, TextLine("more")>>, FALSE)

\* Older than the others.
DocD ==
    Doc(<<DelimLine, TitleLine("D"), DateLine(<<2023, 12, 25, 0>>), DelimLine,
          TextLine("delta")>>, TRUE)

DocNoTitle == Doc(<<DelimLine, DateLine(Jan1), DelimLine, TextLine("alpha")>>, TRUE)

DocNoDate == Doc(<<DelimLine, TitleLine("A"), DelimLine, TextLine("alpha")>>, TRUE)

DocBadDate ==
    Doc(<<DelimLine, TitleLine("A"), BadDateLine("yesterday"), DelimLine,
          TextLine("alpha")>>, TRUE)

DocOneDelim == Doc(<<DelimLine, TitleLine("A"), DateLine(Jan1), TextLine("alpha")>>, TRUE)

DocNotUtf8 == [text |-> Text(<< >>, TRUE), utf8 |-> FALSE]

GoodDocs == {DocA, DocB, DocC, DocD}

BadDocs == {DocNoTitle, DocNoDate, DocBadDate, DocOneDelim, DocNotUtf8}

MdPaths == {Path("", "a", "md"), Path("sub", "a", "md"), Path("", "index", "md")}

TxtFile == File(Path("", "a", "txt"), DocOneDelim)

PostTemplate == "<h1>{{ title }}</h1>{{ date }}{{ content }}"

PostTemplate2 == "<h2>{{ title }}</h2>{{ content }}"

IndexTemplate == "{% for post in posts %}{{ post.slug }}{% endfor %}"

FullTemplates == [n \in {"post.html", "index.html"} |->
                     IF n = "post.html" THEN PostTemplate ELSE IndexTemplate]

Without(tree, name) == [n \in DOMAIN tree \ {name} |-> tree[n]]

WithTemplate(tpl, name, src) ==
    [n \in DOMAIN tpl \cup {name} |-> IF n = name THEN src ELSE tpl[n]]

TemplateRoots ==
    {FullTemplates, Without(FullTemplates, "post.html"),
     Without(FullTemplates, "index.html"),
     WithTemplate(FullTemplates, "base.html", "{% broken")}

Root(files) == [exists |-> TRUE, files |-> files]

MissingRoot == [exists |-> FALSE, files |-> << >>]

Injective(q) == \A i, j \in DOMAIN q : q[i] = q[j] => i = j

\* Every order of every set of the markdown paths.
PathOrders ==
    UNION {{q \in [1..n -> MdPaths] : Injective(q)} : n \in 0..Cardinality(MdPaths)}

\* Every order in which WalkDir may yield the files.
ScanOrders(files) ==
    {[i \in 1..Len(files) |-> files[f[i]]] :
        f \in {g \in [1..Len(files) -> 1..Len(files)] : Injective(g)}}

\* Documents for the paths q, at most one of them unparsable.
DocChoices(q) ==
    {d \in [DOMAIN q -> GoodDocs \cup BadDocs] :
        Cardinality({i \in DOMAIN q : d[i] \in BadDocs}) <= 1}

FilesOf(q, d) == [i \in DOMAIN q |-> File(q[i], d[i])]

MdTrees == UNION {{FilesOf(q, d) : d \in DocChoices(q)} : q \in PathOrders}

\* The content roots of the one-shot runs.
GenContents ==
    {MissingRoot} \cup {Root(f) : f \in MdTrees}
        \cup {Root(Append(f, TxtFile)) : f \in MdTrees}

\* What an earlier run over other sources left in the output root.
StaleTree ==
    generate_site(FullTemplates,
                  Root(<<File(Path("", "old", "md"), DocA), File(Path("", "a", "md"), DocB)>>),
                  EmptyTree).out

\* The content roots `dev` is started on.
DevContents ==
    {Root(<< >>),
     Root(<<File(Path("", "a", "md"), DocA)>>),
     Root(<<File(Path("", "a", "md"), DocA), File(Path("", "index", "md"), DocB)>>),
     Root(<<File(Path("", "a", "md"), DocNoTitle)>>)}

DevTemplates == {FullTemplates, Without(FullTemplates, "index.html")}

Ports == {DefaultPort, 8080}

Edit(op, root, path, doc, src) ==
    [op |-> op, root |-> root, path |-> path, doc |-> doc, src |-> src]

\* The edits of the roots made while `dev` runs.
Edits ==
    {Edit("touch", "content", Path("", "a", "md"), DocA, ""),
     Edit("write", "content", Path("", "a", "md"), DocB, ""),
     Edit("write", "content", Path("sub", "a", "md"), DocNoTitle, ""),
     Edit("remove", "content", Path("", "a", "md"), DocA, ""),
     Edit("remove", "templates", Path("", "index", "html"), DocA, ""),
     Edit("remove", "templates", Path("", "post", "html"), DocA, ""),
     Edit("write", "templates", Path("", "post", "html"), DocA, PostTemplate2),
     Edit("write", "templates", Path("", "base", "html"), DocA, "{% broken")}

HasPath(files, path) == \E i \in 1..Len(files) : files[i].path = path

\* Create or overwrite a file: an existing entry keeps its place in the directory.
PutFile(files, f) ==
    IF HasPath(files, f.path)
    THEN [i \in 1..Len(files) |-> IF files[i].path = f.path THEN f ELSE files[i]]
    ELSE Append(files, f)

RemoveFile(files, path) == SelectSeq(files, LAMBDA f : f.path # path)

ContentAfter(e, cont) ==
    IF e.root # "content" \/ e.op = "touch" THEN cont
    ELSE IF e.op = "write" THEN Root(PutFile(cont.files, File(e.path, e.doc)))
    ELSE Root(RemoveFile(cont.files, e.path))

TemplateName(path) == path.stem \o "." \o path.ext

TemplatesAfter(e, tpl) ==
    IF e.root # "templates" \/ e.op = "touch" THEN tpl
    ELSE IF e.op = "write" THEN WithTemplate(tpl, TemplateName(e.path), e.src)
    ELSE Without(tpl, TemplateName(e.path))

\* An edit under a root; the watcher sends an event if it watches that root.
FsChange(e) ==
    /\ cli.command = "Dev"
    /\ mainPc \notin Exited \cup {"start"}
    /\ delivered < MaxEvents
    /\ content.exists
    /\ e.op = "touch" => HasPath(content.files, e.path)
    /\ (e.op = "remove" /\ e.root = "content") => HasPath(content.files, e.path)
    /\ (e.op = "remove" /\ e.root = "templates") => TemplateName(e.path) \in DOMAIN templates
    /\ content' = ContentAfter(e, content)
    /\ templates' = TemplatesAfter(e, templates)
    /\ delivered' = delivered + 1
    /\ IF e.root \in channel.watching /\ channel.connected
       THEN /\ channel' = [channel EXCEPT !.queued = @ + 1]
            /\ burst' = [burst EXCEPT !.events = @ + 1]
       ELSE UNCHANGED <<channel, burst>>
    /\ UNCHANGED <<cli, output, run, mainPc, loopPc, server, console, response>>

\* The watcher's backend stops and drops its sender.
ChannelDisconnect ==
    /\ mainPc \in {"watch_content", "watch_templates", "spawn", "serve", "serving"}
    /\ channel.connected
    /\ channel' = [channel EXCEPT !.connected = FALSE]
    /\ UNCHANGED <<cli, content, templates, output, run, mainPc, loopPc, server,
                   console, burst, delivered, response>>

\* Years of the timestamps a date line can parse to: DateTime<Utc> holds years
\* before 0 and past 9999, which a date line writes with an explicit sign or
\* reaches through its offset from UTC.
ParseYears == {-5, 0, 7, 2024, 9999, 10000}

ParseDates == {<<y, m, d, 0>> : y \in ParseYears, m \in {1, 6, 12}, d \in {1, 9, 10, 28}}

DatedDoc(date) ==
    Doc(<<DelimLine, TitleLine("A"), DateLine(date), DelimLine, TextLine("alpha")>>, TRUE)

MaxLines == 4

ParseLines ==
    {DelimLine, DashTailLine("x"), DescDashLine("d"), TitleLine("A"), DateLine(Jan1),
     TextLine("t")}

\* Every text of MaxLines lines at most, with and without its last newline.
LineDocs ==
    UNION {{Doc(l, nl) : l \in [1..n -> ParseLines], nl \in BOOLEAN} : n \in 0..MaxLines}

\* Content roots of one markdown file.
ParseContents ==
    {Root(<<File(Path("", "a", "md"), d)>>) :
        d \in {DatedDoc(date) : date \in ParseDates} \cup LineDocs}

(***************************************************************************)
(* Specifications                                                          *)
(***************************************************************************)
InitProcess ==
    /\ run = [t \in Tasks |-> IdleRun]
    /\ mainPc = "start"
    /\ loopPc = "unspawned"
    /\ channel = [queued |-> 0, connected |-> FALSE, watching |-> {}]
    /\ server = [state |-> "off", port |-> 0]
    /\ console = [out |-> "", err |-> ""]
    /\ burst = [events |-> 0, runs |-> 0]
    /\ delivered = 0
    /\ response = NoResponse

\* `trk generate` or `trk dev --port p` on a small site, the server without clients.
Init ==
    /\ cli \in [command : {"Generate", "Dev"}, port : Ports]
    /\ content \in DevContents
    /\ templates \in DevTemplates
    /\ output = EmptyTree
    /\ InitProcess

Next ==
    \/ MainGenerate
    \/ MainDevInitial
    \/ MainReturn
    \/ MainWatcher
    \/ MainWatchContent
    \/ MainWatchTemplates
    \/ MainSpawn
    \/ MainServe
    \/ \E t \in Tasks : GsInit(t)
    \/ \E t \in Tasks : GsCollect(t)
    \/ \E t \in Tasks : GsRenderPost(t)
    \/ \E t \in Tasks : GsIndex(t)
    \/ \E t \in Tasks : GsRss(t)
    \/ LoopRecvOk
    \/ LoopReturn
    \/ LoopTimeout
    \/ LoopRecvErr
    \/ \E e \in Edits : FsChange(e)
    \/ ChannelDisconnect

Spec == Init /\ [][Next]_vars

\* `trk generate` over every content root and template root of the universe,
\* into an empty output root or one an earlier run filled.
InitGen ==
    /\ cli = [command |-> "Generate", port |-> DefaultPort]
    /\ content \in GenContents
    /\ templates \in TemplateRoots
    /\ output \in {EmptyTree, StaleTree}
    /\ InitProcess

NextGen ==
    \/ MainGenerate
    \/ MainReturn
    \/ GsInit("main")
    \/ GsCollect("main")
    \/ GsRenderPost("main")
    \/ GsIndex("main")
    \/ GsRss("main")

SpecGen == InitGen /\ [][NextGen]_vars

\* `dev` on a site of one document, with clients of the server; main and the
\* spawned loop each keep taking their steps.
InitLive ==
    /\ cli \in [command : {"Generate", "Dev"}, port : {DefaultPort}]
    /\ content = Root(<<File(Path("", "a", "md"), DocA)>>)
    /\ templates = FullTemplates
    /\ output = EmptyTree
    /\ InitProcess

MainStep ==
    \/ MainGenerate
    \/ MainDevInitial
    \/ MainReturn
    \/ MainWatcher
    \/ MainWatchContent
    \/ MainWatchTemplates
    \/ MainSpawn
    \/ MainServe
    \/ GsInit("main")
    \/ GsCollect("main")
    \/ GsRenderPost("main")
    \/ GsIndex("main")
    \/ GsRss("main")

LoopStep ==
    \/ LoopRecvOk
    \/ LoopReturn
    \/ LoopTimeout
    \/ LoopRecvErr
    \/ GsInit("watch")
    \/ GsCollect("watch")
    \/ GsRenderPost("watch")
    \/ GsIndex("watch")
    \/ GsRss("watch")

NextLive ==
    \/ MainStep
    \/ LoopStep
    \/ \E p \in RequestPaths : ServerRequest(p)
    \/ \E e \in Edits : FsChange(e)
    \/ ChannelDisconnect

\* A task that can take a step takes one.  The scan stage is enabled exactly
\* while the frame is at "collect" and its step leaves "collect": its fairness is
\* written as such.
Scanning(t) == run[t].pc = "collect"

Fairness ==
    /\ WF_vars(~Scanning("main") /\ MainStep)
    /\ WF_vars(~Scanning("watch") /\ LoopStep)
    /\ \A t \in Tasks : []<>(~Scanning(t))

SpecLive == InitLive /\ [][NextLive]_vars /\ Fairness

\* `trk generate` over one markdown file: parse_markdown_file and format_date
\* applied to every text and date of the universe.
InitParse ==
    /\ cli = [command |-> "Generate", port |-> DefaultPort]
    /\ content \in ParseContents
    /\ templates = FullTemplates
    /\ output = EmptyTree
    /\ InitProcess

SpecParse == InitParse /\ [][NextGen]_vars

(***************************************************************************)
(* Properties                                                              *)
(***************************************************************************)
RunsInFlight == {t \in Tasks : InFlight(run[t])}

\* C1: the events of one burst (no quiet window between them) start
\* generate_site once at most, however many they are.
C1_OneRunPerBurst == burst.runs <= 1

\* C2: at most one generate_site call is in progress, and an event delivered
\* while one is in progress is queued without starting another.
C2_SingleFlight ==
    /\ [](Cardinality(RunsInFlight) <= 1)
    /\ [][(RunsInFlight # {} /\ channel'.queued > channel.queued)
            => (\A t \in Tasks : run'[t] = run[t])]_vars

C2_Witness ==
    /\ InFlight(run["watch"])
    /\ channel.queued > 0
    /\ run["watch"].pc = "render"

RegenerationErrors ==
    {"Error regenerating site: " \o e :
        e \in {"Failed to initialize template engine", "ScanError", "ReadError",
               "FormatError", "MetadataError", "RenderError"}}

\* C3: when a regeneration started by the watch loop fails, the error is printed,
\* the loop waits on the channel again with main and the server as they were, and
\* the loop's next receipt of an event starts generate_site anew.
C3_LoopSurvivesFailure ==
    /\ [][(loopPc = "call" /\ run["watch"].pc = "failed" /\ loopPc' # "call")
            => /\ loopPc' = "recv"
               /\ console'.err \in RegenerationErrors
               /\ server' = server
               /\ mainPc' = mainPc
               /\ mainPc \notin Exited]_vars
    /\ [][(loopPc = "recv" /\ channel'.queued < channel.queued)
            => (loopPc' = "call" /\ run'["watch"] = Called(output))]_vars

\* A regeneration under way after a failed one, the server listening.
C3_Witness ==
    /\ console.err \in RegenerationErrors
    /\ loopPc = "call"
    /\ run["watch"].pc = "render"
    /\ server.state = "listening"

\* C4: a failure to set a watch up, and a failure of the event channel once the
\* watches are armed, both end the process.
C4_WatchErrorsFatal ==
    /\ console.err = "Error: WatchError" => mainPc = "exit_err"
    /\ loopPc = "stopped" => server.state # "listening"

\* The posts of the content root in scan order, as parsed.
ScannedPosts == ParseAll(content.files, 1, << >>).val

DatesOf(posts) == {posts[i].front_matter.date : i \in 1..Len(posts)}

WithDate(posts, d) == SelectSeq(posts, LAMBDA p : p.front_matter.date = d)

NewestFirst(posts) ==
    \A i, j \in 1..Len(posts) :
        i < j => DateCmp(posts[i].front_matter.date, posts[j].front_matter.date) >= 0

Rendering(r) == r.pc \in {"render", "rss", "ok"} \/ (r.pc = "failed" /\ r.err = "RenderError")

\* C5: the collection a run renders holds the parsed documents newest first, and
\* the documents of one date in the order the scanner met them.
C5_StableNewestFirst ==
    Rendering(run["main"]) =>
        /\ Len(run["main"].posts) = Len(ScannedPosts)
        /\ NewestFirst(run["main"].posts)
        /\ \A d \in DatesOf(ScannedPosts) \cup DatesOf(run["main"].posts) :
               WithDate(run["main"].posts, d) = WithDate(ScannedPosts, d)

\* Three documents, two of one date, which the sort had to reorder.
C5_Witness ==
    /\ run["main"].pc = "render"
    /\ Len(run["main"].posts) = 3
    /\ run["main"].posts # ScannedPosts
    /\ Cardinality(DatesOf(ScannedPosts)) = 2
    /\ \E i, j \in 1..3 :
        /\ i < j
        /\ run["main"].posts[i].front_matter.date = run["main"].posts[j].front_matter.date
        /\ run["main"].posts[i].front_matter.title # run["main"].posts[j].front_matter.title

\* C6: the feed a run writes has one entry per document of the collection, in the
\* collection's order, with that document's title, description, date and link.
C6_FeedProjectsCollection ==
    run["main"].pc = "ok" =>
        /\ "feed.xml" \in DOMAIN output
        /\ Len(output["feed.xml"]) = 1
        /\ LET items == output["feed.xml"][1].items
               posts == run["main"].posts
           IN  /\ Len(items) = Len(posts)
               /\ \A i \in 1..Len(posts) :
                    /\ items[i].title = posts[i].front_matter.title
                    /\ items[i].description = posts[i].front_matter.description
                    /\ items[i].pub_date = to_rfc2822(posts[i].front_matter.date)
                    /\ items[i].link = SiteBase \o "/" \o posts[i].slug \o ".html"

C6_Witness ==
    /\ run["main"].pc = "ok"
    /\ Len(run["main"].posts) = 3
    /\ output["feed.xml"][1].items[1].title # output["feed.xml"][1].items[3].title

\* C7: a second run on the same content and template roots leaves every file of
\* the output root as the first run left it, and ends as the first did.
C7_Idempotent ==
    Finished(run["main"]) =>
        LET again == generate_site(templates, content, output)
        IN  /\ again.out = output
            /\ again.run.pc = run["main"].pc
            /\ again.run.err = run["main"].err

C7_Witness ==
    /\ run["main"].pc = "ok"
    /\ Len(run["main"].posts) = 3
    /\ run["main"].out0 = StaleTree
    /\ output # StaleTree

HasUnparsable(cont) ==
    \E i \in 1..Len(cont.files) :
        IsMarkdown(cont.files[i]) /\ ~parse_markdown_file(cont.files[i]).ok

\* C8: with a document that does not parse under the content root, the run fails,
\* prints no success message and writes no file of the output root.
C8_ParseFailureWritesNothing ==
    HasUnparsable(content) =>
        /\ run["main"].pc \in {"idle", "init", "collect", "failed"}
        /\ run["main"].pc # "idle" => output = run["main"].out0
        /\ console.out # SuccessMessage
        /\ mainPc # "exit_ok"

\* A parse failure behind a document that parsed, over a filled output root.
C8_Witness ==
    /\ run["main"].pc = "failed"
    /\ run["main"].err \in {"FormatError", "MetadataError", "ReadError"}
    /\ output = StaleTree
    /\ Len(content.files) >= 2
    /\ parse_markdown_file(content.files[1]).ok

\* The last document of the collection with the slug of document i.
LastWithSlug(posts, i) ==
    CHOOSE j \in 1..Len(posts) :
        /\ posts[j].slug = posts[i].slug
        /\ \A k \in 1..Len(posts) : posts[k].slug = posts[i].slug => k <= j

IndexAndFeedWritten(r) ==
    /\ {"index.html", "feed.xml"} \subseteq DOMAIN output
    /\ output["index.html"] = <<RenderIndex(r.tera, r.posts)>>
    /\ output["feed.xml"] = <<RssChannel(r.posts)>>

\* C9 as stated: after a successful run the output root holds the index, the feed
\* and, for every document, {slug}.html with that document's rendered page.
C9_EveryPageWritten ==
    run["main"].pc = "ok" =>
        /\ IndexAndFeedWritten(run["main"])
        /\ \A i \in 1..Len(run["main"].posts) :
            LET post == run["main"].posts[i]
            IN  /\ (post.slug \o ".html") \in DOMAIN output
                /\ output[post.slug \o ".html"] = <<RenderPost(run["main"].tera, post)>>

\* C9 amended: after a successful run the output root holds the index, the feed
\* and, for every document, {slug}.html; unless the slug is "index", that file holds
\* the rendered page of the last document of the collection with that slug.
C9_LastPageOfSlugWritten ==
    run["main"].pc = "ok" =>
        /\ IndexAndFeedWritten(run["main"])
        /\ \A i \in 1..Len(run["main"].posts) :
            LET posts == run["main"].posts
            IN  /\ (posts[i].slug \o ".html") \in DOMAIN output
                /\ posts[i].slug # "index" =>
                     output[posts[i].slug \o ".html"]
                        = <<RenderPost(run["main"].tera, posts[LastWithSlug(posts, i)])>>

\* Two documents of one slug and different pages, and a third of another slug.
C9_Witness ==
    /\ run["main"].pc = "ok"
    /\ Len(run["main"].posts) = 3
    /\ \E i, j \in 1..3 :
        /\ i < j
        /\ run["main"].posts[i].slug = run["main"].posts[j].slug
        /\ run["main"].posts[i].slug # "index"
        /\ RenderPost(run["main"].tera, run["main"].posts[i])
              # RenderPost(run["main"].tera, run["main"].posts[j])

\* C10: the server listens on the port given on the command line.
C10_ListensOnConfiguredPort == server.state = "listening" => server.port = cli.port

Digit(n) ==
    IF n \in 0..9 THEN <<"0", "1", "2", "3", "4", "5", "6", "7", "8", "9">>[n + 1] ELSE "?"

TwoDigits(n) == Digit(n \div 10) \o Digit(n % 10)

FourDigits(n) ==
    Digit(n \div 1000) \o Digit((n \div 100) % 10) \o Digit((n \div 10) % 10)
        \o Digit(n % 10)

\* Four digits of the year, two of the month, two of the day, dashes between.
IsoDate(date) ==
    FourDigits(date[1]) \o "-" \o TwoDigits(date[2]) \o "-" \o TwoDigits(date[3])

\* C11 as stated: the formatted date of every parsed document is ten characters,
\* DDDD-DD-DD, whose year, month and day are those of the document's date.
C11_TenCharDate ==
    \A i \in 1..Len(run["main"].posts) :
        LET post == run["main"].posts[i]
        IN  /\ Len(post.formatted_date) = 10
            /\ post.formatted_date = IsoDate(post.front_matter.date)

\* C11 amended: the formatted date of every parsed document whose date has a year
\* from 0 to 9999 is ten characters, DDDD-DD-DD, whose year, month and day are
\* those of the document's date.
C11_TenCharDateInRange ==
    \A i \in 1..Len(run["main"].posts) :
        LET post == run["main"].posts[i]
        IN  post.front_matter.date[1] \in 0..9999 =>
                /\ Len(post.formatted_date) = 10
                /\ post.formatted_date = IsoDate(post.front_matter.date)

\* A parsed date whose year, month and day all need padding.
C11_Witness ==
    /\ run["main"].pc = "ok"
    /\ run["main"].posts[1].front_matter.date = <<7, 6, 9, 0>>
    /\ run["main"].posts[1].formatted_date = "0007-06-09"

DelimiterLines(text) == Cardinality({i \in 1..Len(text.lines) : text.lines[i].k = "---"})

Collected(r) == r.pc \notin {"idle", "init", "collect"}

\* C12: the parse of a document with fewer than two delimiter lines fails with
\* the format error, and a text splits into three segments or more only when it
\* has two delimiter lines or more.
C12_FewerThanTwoDelimitersFail ==
    \A i \in 1..Len(content.files) :
        LET file == content.files[i]
        IN  (Len(content.files) = 1 /\ IsMarkdown(file) /\ file.utf8
                /\ Collected(run["main"])) =>
                /\ DelimiterLines(file.text) < 2 =>
                        (run["main"].pc = "failed" /\ run["main"].err = "FormatError")
                /\ Len(Split(file.text)) >= 3 => DelimiterLines(file.text) >= 2

LastPageAt(posts, n, p) ==
    CHOOSE j \in 1..n :
        /\ posts[j].slug \o ".html" = p
        /\ \A k \in 1..n : posts[k].slug \o ".html" = p => k <= j

\* The output root is what the call found, with the pages of the first n documents
\* of the collection written in order and, if withIndex, the index after them.
WrittenSoFar(r, n, withIndex) ==
    LET paths == {r.posts[i].slug \o ".html" : i \in 1..n}
        index == IF withIndex THEN {"index.html"} ELSE {}
    IN  /\ DOMAIN output = DOMAIN r.out0 \cup paths \cup index
        /\ \A p \in DOMAIN output :
              output[p] = IF p \in index THEN <<RenderIndex(r.tera, r.posts)>>
                          ELSE IF p \in paths
                          THEN <<RenderPost(r.tera, r.posts[LastPageAt(r.posts, n, p)])>>
                          ELSE r.out0[p]

C14_CleanRebuild ==
    run["main"].pc = "ok" =>
        output = generate_site(templates, content, EmptyTree).out

\* C15 as stated: a successful run leaves the same collection and the same output
\* root in whatever order the scanner yields the files.
C15_ScanOrderIrrelevant ==
    run["main"].pc = "ok" =>
        \A files \in ScanOrders(content.files) :
            LET other == generate_site(templates, Root(files), run["main"].out0)
            IN  other.run.posts = run["main"].posts /\ other.out = output

DistinctDates(posts) ==
    \A i, j \in 1..Len(posts) :
        posts[i].front_matter.date = posts[j].front_matter.date => i = j

\* C15 amended: over documents of pairwise distinct dates, a successful run leaves
\* the same collection and the same output root in whatever order the scanner
\* yields the files.
C15_ScanOrderIrrelevantDistinctDates ==
    (run["main"].pc = "ok" /\ DistinctDates(run["main"].posts)) =>
        \A files \in ScanOrders(content.files) :
            LET other == generate_site(templates, Root(files), run["main"].out0)
            IN  other.run.posts = run["main"].posts /\ other.out = output

\* Three documents of three dates, two of them of one slug, scanned oldest first.
C15_Witness ==
    /\ run["main"].pc = "ok"
    /\ Len(run["main"].posts) = 3
    /\ Len(content.files) = 4
    /\ DistinctDates(run["main"].posts)
    /\ run["main"].posts # ScannedPosts
    /\ run["main"].posts[1].slug = run["main"].posts[2].slug

\* Two markdown files of one stem in different directories.
SlugClash(cont) ==
    \E i, j \in 1..Len(cont.files) :
        /\ IsMarkdown(cont.files[i]) /\ IsMarkdown(cont.files[j])
        /\ cont.files[i].path.stem = cont.files[j].path.stem
        /\ cont.files[i].path.dir # cont.files[j].path.dir

Renderable(tpl) ==
    /\ {"post.html", "index.html"} \subseteq DOMAIN tpl
    /\ \A n \in DOMAIN tpl : ~IsBrokenTemplate(tpl[n])

\* C16: with two parsable documents of one slug in different directories the run
\* does not fail; both are in the collection, the index and the feed, and
\* {slug}.html holds the page of the one that is later in the collection.
C16_SlugClashLastWins ==
    (SlugClash(content) /\ ~HasUnparsable(content) /\ Renderable(templates)) =>
        /\ run["main"].pc # "failed"
        /\ mainPc # "exit_err"
        /\ run["main"].pc = "ok" =>
            LET posts == run["main"].posts
                clash == {c \in (1..Len(posts)) \X (1..Len(posts)) :
                            c[1] < c[2] /\ posts[c[1]].slug = posts[c[2]].slug}
            IN  /\ clash # {}
                /\ Len(posts) = Cardinality({i \in 1..Len(content.files) :
                                                IsMarkdown(content.files[i])})
                /\ output["index.html"][1].posts = posts
                /\ Len(output["feed.xml"][1].items) = Len(posts)
                /\ \A c \in clash :
                    /\ output["feed.xml"][1].items[c[1]].title = posts[c[1]].front_matter.title
                    /\ output["feed.xml"][1].items[c[2]].title = posts[c[2]].front_matter.title
                    /\ output["feed.xml"][1].items[c[1]].link
                          = output["feed.xml"][1].items[c[2]].link
                    /\ output[posts[c[2]].slug \o ".html"]
                          = <<RenderPost(run["main"].tera, posts[c[2]])>>

\* sub/a.md and a.md with different pages, and index.md: the page of the older
\* one is gone.
C16_Witness ==
    /\ run["main"].pc = "ok"
    /\ SlugClash(content)
    /\ Len(run["main"].posts) = 3
    /\ \E i, j \in 1..3 :
        /\ i < j
        /\ run["main"].posts[i].slug = "a" /\ run["main"].posts[j].slug = "a"
        /\ output["a.html"] = <<RenderPost(run["main"].tera, run["main"].posts[j])>>
        /\ output["a.html"] # <<RenderPost(run["main"].tera, run["main"].posts[i])>>

\* C17: while it listens, the server answers every request at once, whatever a
\* regeneration under way has written so far.
C17_ServerNeverWaits ==
    server.state = "listening" => \A p \in RequestPaths : ENABLED ServerRequest(p)

\* A client has the new a.html of a regeneration that has not yet written the
\* index: index.html still is what the run before left.
C17_Witness ==
    LET r == run["watch"]
    IN  /\ server.state = "listening"
        /\ r.pc = "render"
        /\ {"a.html", "index.html"} \subseteq DOMAIN r.out0
        /\ "index.html" \in DOMAIN r.tera
        /\ output["a.html"] # r.out0["a.html"]
        /\ output["index.html"] = r.out0["index.html"]
        /\ output["index.html"] # <<RenderIndex(r.tera, r.posts)>>
        /\ response = [path |-> "a.html", status |-> 200, body |-> output["a.html"]]

\* C18: every generate_site call that has started returns, with success or with
\* an error, and until it does nothing but its own next stage changes its frame:
\* no event, request or step of the other task aborts or restarts it.
C18_RunsEndUndisturbed ==
    /\ \A t \in Tasks : InFlight(run[t]) ~> Finished(run[t])
    /\ [][\A t \in Tasks :
            InFlight(run[t]) =>
                run'[t] \in {run[t], Stage(run[t], templates, content, output).run}]_vars

\* A regeneration has ended well although the content root changed and an event
\* was queued after it had scanned, and the server answered a request.
C18_Witness ==
    /\ run["watch"].pc = "ok"
    /\ channel.queued > 0
    /\ run["watch"].posts # sort_by(ParseAll(content.files, 1, << >>).val)
    /\ response.status = 200

Armed == channel.watching = {"content", "templates"}

\* C19: once both watches are armed, an event on the channel is later taken off
\* it, and the loop takes events off the channel one at a time, starting
\* generate_site at each.
C19_NoEventLost ==
    /\ \A n \in 1..MaxEvents : (Armed /\ channel.queued = n) ~> (channel.queued < n)
    /\ [][channel'.queued < channel.queued
            => /\ channel'.queued = channel.queued - 1
               /\ loopPc = "recv" /\ loopPc' = "call"
               /\ run'["watch"] = Called(output)]_vars

\* Two events were delivered and two regenerations started, the second of them
\* after the last event and still under way.
C19_Witness ==
    /\ Armed
    /\ delivered = 2
    /\ burst = [events |-> 2, runs |-> 2]
    /\ channel.queued = 0
    /\ loopPc = "call"
    /\ InFlight(run["watch"])

Started == channel.connected \/ channel.watching # {} \/ loopPc # "unspawned"
               \/ server.state # "off"

\* C20: in `dev` the watcher, the watches, the loop and the server start only
\* after the initial generation has succeeded; if it fails, main exits with its
\* error and none of them ever starts.
C20_StartupAfterInitialRun ==
    /\ [](mainPc \in {"start", "initial"} => ~Started)
    /\ [](Started => (cli.command = "Dev" /\ {"index.html", "feed.xml"} \subseteq DOMAIN output))
    /\ [][(mainPc = "initial" /\ run["main"].pc = "failed" /\ mainPc' # mainPc)
            => (mainPc' = "exit_err" /\ console'.err = "Error: " \o run["main"].err)]_vars
    /\ [](mainPc \in Exited => (loopPc = "unspawned" /\ server.state = "off"))
    /\ [][(mainPc \in Exited) => (mainPc' = mainPc)]_vars

\* The server listens and the loop waits, behind a successful initial generation.
C20_Witness ==
    /\ server.state = "listening"
    /\ loopPc = "recv"
    /\ Armed
    /\ delivered = 0
    /\ output["feed.xml"] = <<RssChannel(sort_by(ParseAll(content.files, 1, << >>).val))>>

====
